---- MODULE Spec2Model ----
(***************************************************************************)
(* AxeBuilder of packages/webdriverio/src/index.ts as a state machine.     *)
(*                                                                         *)
(* The state is the remote browser session the builder drives (the page's  *)
(* frame tree, the active browsing context, the open windows, the active   *)
(* window), the builder's configuration, and the position of one analyze() *)
(* call: every awaited remote call is one step, which either succeeds or   *)
(* raises.  The recursive functions runPartialRecursive and inject keep    *)
(* their activation records on `stack`.                                    *)
(***************************************************************************)
EXTENDS Integers, Sequences, FiniteSets, TLC

\* ---------------------------------------------------------------- bounds
\* embedded frames of the page under test (the top-level document is frame 0)
MaxFrames == 3
\* remote calls that raise during one analyze() call
MaxFailures == 2
\* analyze() calls made on the builder
MaxCalls == 2
\* entries the builder's lists (includes, excludes, disableFrameSelectors)
\* hold together
MaxEntries == 2

\* ------------------------------------------------------------- constants
Top == 0
Null == -1
NoHandle == -1
Unset == -2
PageWindow == 0

VARIABLES
  parent,        \* the page: parent[f] is the frame embedding frame f
  ctx,           \* active browsing context (a frame of the active window)
  open,          \* handles of the open windows
  active,        \* handle of the active window
  nextHandle,    \* handle the browser gives the next window it opens
  axeSource,     \* AxeBuilder.axeSource: the engine build it holds
  legacyMode,    \* AxeBuilder.legacyMode
  includes,      \* AxeBuilder.includes
  excludes,      \* AxeBuilder.excludes
  option,        \* AxeBuilder.option
  disableFrameSelectors,   \* AxeBuilder.disableFrameSelectors
  selCalls,      \* the last two withRules / withTags calls made since options()
  pc,            \* position of the analyze() call
  stack,         \* activation records of runPartialRecursive / inject
  err,           \* the error being propagated, or the last one raised
  cb,            \* analyze() was given a callback
  cbThrows,      \* that callback throws when it is handed results
  promise,       \* state of the promise analyze() returned
  promiseVal,    \* value that promise was resolved with
  cbCalls,       \* arguments of the callback's invocations, in order
  result,        \* value analyzePromise() resolved with
  partials,      \* sequence handed over by the top-level runPartialRecursive
  supported,     \* analyzePromise: runPartialSupported ("unknown" before line 220)
  path,          \* which runner analyzePromise() chose
  win,           \* finishRun: handle recorded by getWindowHandle
  newWin,        \* finishRun: handle returned by createWindow
  startWin,      \* active window when analyze() was called
  calls,         \* remote and engine calls issued by this analyze() call
  fails,         \* remote calls that raised in this analyze() call
  injected,      \* documents inject() executed the script in, in order
  failedFrames,  \* frames whose scan ended in a failure marker in this call
  context,       \* analyzePromise: the normalized scan context
  startCfg,      \* the configuration when analyze() was called
  prev,          \* how this analyze() call compares with the one before it
  ncalls         \* analyze() calls made so far

browserVars == <<parent, ctx, open, active, nextHandle>>
cfgVars == <<axeSource, legacyMode, includes, excludes, option, disableFrameSelectors,
             selCalls>>
windowVars == <<open, active, nextHandle>>
settleVars == <<cb, cbThrows, promise, promiseVal, cbCalls>>
finishVars == <<win, newWin>>
vars == <<parent, ctx, open, active, nextHandle, axeSource, legacyMode, includes,
          excludes, option, disableFrameSelectors, selCalls, pc, stack, err,
          cb, cbThrows, promise, promiseVal, cbCalls, result, partials,
          supported, path, win, newWin, startWin, calls, fails, injected,
          failedFrames, context, startCfg, prev, ncalls>>

\* ------------------------------------------------------------- the page
\* Pages: frame f > 0 is embedded in an earlier frame; document order is
\* the order of the frame numbers.
PagesOf(max) ==
  UNION { { p \in [1..n -> 0..(n-1)] : \A f \in 1..n : p[f] < f } : n \in 0..max }
Pages == PagesOf(MaxFrames)

RECURSIVE SortedSeq(_)
SortedSeq(S) ==
  IF S = {} THEN <<>>
  ELSE LET m == CHOOSE x \in S : \A y \in S : x <= y
       IN  <<m>> \o SortedSeq(S \ {m})

\* The frame elements of document c, in document order.  Only the page in
\* PageWindow embeds frames; a window opened by createWindow is blank.
ChildFrames(c) ==
  IF active = PageWindow
  THEN SortedSeq({ f \in DOMAIN parent : parent[f] = c })
  ELSE <<>>

ParentOf(c) == IF c = Top \/ c \notin DOMAIN parent THEN Top ELSE parent[c]

\* Frame f carries the id f and the name f.  A selector, as the browser
\* reads it, matches the frame when it is the frame's id selector or the
\* attribute selector of its name; with backslashes before its quotes the
\* attribute selector asks for a name that has the quotes in it, which no
\* frame of the page has.
Matches(sel, f) ==
  \/ sel = <<"#", ToString(f)>>
  \/ sel = <<"[name=", "'", ToString(f), "'", "]">>

\* the elements of s that none of the :not(...) of a selector excludes
RECURSIVE NotMatching(_, _)
NotMatching(s, nots) ==
  IF s = <<>> THEN <<>>
  ELSE (IF \E i \in DOMAIN nots : Matches(nots[i], Head(s))
        THEN <<>> ELSE <<Head(s)>>)
       \o NotMatching(Tail(s), nots)

\* ---------------------------------------------------------------- errors
NoError == [origin |-> "none", depth |-> 0, msg |-> <<>>]
Error(origin, depth) == [origin |-> origin, depth |-> depth, msg |-> <<origin>>]

NoResult == [path |-> "none", partials |-> <<>>]

\* calls counted per analyze() call
CallNames == {"probe", "getFrameContexts", "runPartial", "getWindowHandle",
              "createWindow", "switchToWindow", "url", "finishRun",
              "closeWindow", "runLegacy", "execute"}
NoCalls == [c \in CallNames |-> 0]
Count(c) == [calls EXCEPT ![c] = @ + 1]

\* A remote call raises when the transport or the browser fails it (while
\* the budget of the analyze() call lasts), and always when the active
\* window has been closed; it works only in an open window.
CanFail == fails < MaxFailures
SessionOk == active \in open
Raises ==
  IF SessionOk THEN CanFail /\ fails' = fails + 1 ELSE UNCHANGED fails
Works == SessionOk /\ UNCHANGED fails

\* ------------------------------------------------- activation records
\* One activation of runPartialRecursive (or of inject):
\*   self      the document the call was entered in
\*   kids      frameContexts (inject: iframes), in iteration order
\*   k         index of the loop's current element
\*   elem      the frame element the current iteration holds (Null: none)
\*   partials  the local `partials`
\*   contrib   what each finished iteration added to `partials`
\*   last      how the previous iteration ended
Activation(c) ==
  [self |-> c, kids |-> <<>>, k |-> 1, elem |-> Null, partials |-> <<>>,
   contrib |-> <<>>, last |-> "none"]

\* inject(browsingContext): `elem` holds the argument until line 189 ran
InjectActivation(bc) == [Activation(Null) EXCEPT !.elem = bc]

TopOf(st) == st[Len(st)]
SetTop(st, r) == [st EXCEPT ![Len(st)] = r]
Pop(st) == SubSeq(st, 1, Len(st) - 1)

RECURSIVE Flatten(_)
Flatten(ss) == IF ss = <<>> THEN <<>> ELSE Head(ss) \o Flatten(Tail(ss))

\* ---------------------------------------------------------- analyze()
\* lines 213-218: normalizeContext(includes, excludes, disableFrameSelectors)
\* the include and exclude selectors in their order, the whole document
\* when nothing was included, and the frames disabled from injection.
WholeDocument == <<<<"document">>>>
NormalizeContext(inc, exc, disabled) ==
  [include |-> IF inc = <<>> THEN WholeDocument ELSE inc,
   exclude |-> exc,
   disabledFrames |-> disabled]

\* the builder's configuration
Configuration ==
  [legacyMode |-> legacyMode, includes |-> includes, excludes |-> excludes,
   option |-> option, disableFrameSelectors |-> disableFrameSelectors]

\* analyze(callback?) is called: analyzePromise() starts (lines 152-154,
\* 212-218; normalizeContext is pure and touches no state).
AnalyzeCall ==
  /\ pc \in {"idle", "done"}
  /\ ncalls < MaxCalls
  /\ \E c \in BOOLEAN, t \in BOOLEAN :
       /\ t => c
       /\ cb' = c
       /\ cbThrows' = t
  /\ ncalls' = ncalls + 1
  /\ pc' = "probe"
  /\ stack' = <<>>
  /\ err' = NoError
  /\ promise' = "pending"
  /\ promiseVal' = NoResult
  /\ cbCalls' = <<>>
  /\ result' = NoResult
  /\ partials' = <<>>
  /\ supported' = "unknown"
  /\ path' = "none"
  /\ win' = Unset
  /\ newWin' = Unset
  /\ startWin' = active
  /\ calls' = NoCalls
  /\ fails' = 0
  /\ injected' = <<>>
  /\ failedFrames' = {}
  /\ context' = NormalizeContext(includes, excludes, disableFrameSelectors)
  /\ startCfg' = Configuration
  /\ UNCHANGED <<browserVars, cfgVars>>

Analyze == AnalyzeCall /\ UNCHANGED prev

\* analyze() is called, and how the call compares with the one before it
\* is recorded: the path that one took, whether the configuration is the
\* one it was called with, and whether the scan context is the one it built
AnalyzeAgain ==
  /\ AnalyzeCall
  /\ prev' = [path |-> path,
              sameConfiguration |-> Configuration = startCfg,
              sameContext |-> context' = context]

\* the legacy flag set once the engine was found to lack runPartial
LegacyModeAfter_Fallback(runPartialSupported, legacy) ==
  legacy \/ ~runPartialSupported

\* lines 220-223 read this.legacyMode and assign it nothing
LegacyModeAfter(runPartialSupported, legacy) == legacy

\* `&&` for `||`
UseLegacy_Both(runPartialSupported, legacy) == ~runPartialSupported /\ legacy

\* line 221: the Legacy Runner is chosen
UseLegacy(runPartialSupported, legacy) == ~runPartialSupported \/ legacy

\* The engine builds a builder is constructed with (lines 45-56): one that
\* has axe.runPartial, and an older one that has not.
AxeSources == {"with runPartial", "without runPartial"}
HasRunPartial(source) == source = "with runPartial"

\* line 220-224: axeSourceInject(client, axeSource) injects the engine into
\* the current document and reports whether it has runPartial.
Probe ==
  /\ pc = "probe"
  /\ calls' = Count("probe")
  /\ \/ /\ Raises
        /\ err' = Error("probe", 0)
        /\ pc' = "catch"
        /\ UNCHANGED <<stack, path, supported, legacyMode>>
     \/ /\ LET runPartialSupported == HasRunPartial(axeSource)
           IN
             /\ supported' = IF runPartialSupported THEN "yes" ELSE "no"
             /\ legacyMode' = LegacyModeAfter(runPartialSupported, legacyMode)
             /\ IF UseLegacy(runPartialSupported, legacyMode)
                THEN /\ path' = "legacy"
                     /\ stack' = <<InjectActivation(Null)>>
                     /\ pc' = "inj_ctx"
                ELSE /\ path' = "partial"
                     /\ stack' = <<Activation(ctx)>>
                     /\ pc' = "rp_get"
        /\ Works
        /\ UNCHANGED err
  /\ UNCHANGED <<browserVars, axeSource, includes, excludes, option,
                 disableFrameSelectors, selCalls, settleVars, finishVars,
                 result, partials, startWin, injected, failedFrames, context, startCfg,
                 prev, ncalls>>

\* ------------------------------------------------ runPartialRecursive
\* the frame lookup of line 294 placed before the try block
CaughtByChildTry_LookupOutside(step) == step \in {"rp_switch", "rp_inject", "rp_call"}

\* lines 293-299: the steps of one iteration that sit inside its try block
\* (rp_call: the recursive call of line 298 raised)
CaughtByChildTry(step) == step \in {"rp_find", "rp_switch", "rp_inject", "rp_call"}

RECURSIVE Unwind(_, _)
\* An error raised at `step` in the top activation of st: control goes to
\* that activation's catch block (line 299) when the step is inside its try,
\* and otherwise leaves the activation, raising at the caller's line 298;
\* out of the outermost activation it rejects analyzePromise (line 224).
Unwind(st, step) ==
  IF st = <<>> THEN [pc |-> "catch", stack |-> <<>>]
  ELSE IF CaughtByChildTry(step) THEN [pc |-> "rp_catch", stack |-> st]
  ELSE Unwind(Pop(st), "rp_call")

Raise(st, step) ==
  LET u == Unwind(st, step)
  IN  /\ err' = Error(step, Len(st))
      /\ pc' = u.pc
      /\ stack' = u.stack

\* line 292: the for loop's head
LoopHead(r) == IF r.k > Len(r.kids) THEN "rp_ret" ELSE "rp_find"

rpFrame == <<windowVars, parent, cfgVars, settleVars, finishVars, result,
             supported, path, startWin, injected, context, startCfg, prev, ncalls>>

\* line 287: axeGetFrameContext runs in the active document and yields one
\* FrameContext per frame element of that document the scan context does
\* not disable, in document order.
FrameContexts(c, scanContext) ==
  NotMatching(ChildFrames(c), scanContext.disabledFrames)

GetFrameContexts ==
  /\ pc = "rp_get"
  /\ calls' = Count("getFrameContexts")
  /\ \/ /\ Raises
        /\ Raise(stack, "rp_get")
     \/ /\ stack' = SetTop(stack, [TopOf(stack) EXCEPT
                                      !.kids = FrameContexts(ctx, context)])
        /\ pc' = "rp_run"
        /\ Works
        /\ UNCHANGED err
  /\ UNCHANGED <<rpFrame, failedFrames, ctx, partials>>

\* lines 288-290: partials = [await axeRunPartial(...)]; the partial result
\* of a document is modelled by the document's frame number.
OwnPartial(c) == <<c>>

RunPartial ==
  /\ pc = "rp_run"
  /\ calls' = Count("runPartial")
  /\ \/ /\ Raises
        /\ Raise(stack, "rp_run")
     \/ /\ stack' = SetTop(stack, [TopOf(stack) EXCEPT !.partials = OwnPartial(ctx)])
        /\ pc' = LoopHead(TopOf(stack))
        /\ Works
        /\ UNCHANGED err
  /\ UNCHANGED <<rpFrame, failedFrames, ctx, partials>>

\* line 294: client.$(frameSelector) looks the selector up in the ACTIVE
\* document.  In the document the FrameContext came from it finds that
\* frame's element; in another document the selector (a position among the
\* document's frame elements) finds the element at the same position, if any.
Lookup(c, r) ==
  IF c = r.self THEN r.kids[r.k]
  ELSE IF r.k <= Len(ChildFrames(c)) THEN ChildFrames(c)[r.k]
  ELSE Null

\* lines 294-295: the lookup, then assert(frame, ...)
FindFrame ==
  /\ pc = "rp_find"
  /\ LET r == TopOf(stack)
         e == Lookup(ctx, r)
     IN  \/ /\ Raises
            /\ Raise(stack, "rp_find")
         \/ /\ e = Null
            /\ Works
            /\ Raise(stack, "rp_find")
         \/ /\ e # Null
            /\ stack' = SetTop(stack, [r EXCEPT !.elem = e])
            /\ pc' = "rp_switch"
            /\ Works
            /\ UNCHANGED err
  /\ UNCHANGED <<rpFrame, failedFrames, ctx, partials, calls>>

\* line 296: client.switchToFrame(frame)
SwitchToFrame ==
  /\ pc = "rp_switch"
  /\ \/ /\ Raises
        /\ Raise(stack, "rp_switch")
        /\ UNCHANGED ctx
     \/ /\ ctx' = TopOf(stack).elem
        /\ pc' = "rp_inject"
        /\ UNCHANGED <<fails, err, stack>>
  /\ UNCHANGED <<rpFrame, failedFrames, partials, calls>>

\* lines 297-298: axeSourceInject(client, this.script), then the recursive
\* call is entered in the document just switched into.
Reinject ==
  /\ pc = "rp_inject"
  /\ \/ /\ Raises
        /\ Raise(stack, "rp_inject")
     \/ /\ stack' = Append(stack, Activation(ctx))
        /\ pc' = "rp_get"
        /\ Works
        /\ UNCHANGED err
  /\ UNCHANGED <<rpFrame, failedFrames, ctx, partials, calls>>

\* line 300: partials.push(null)
PushNull(ps) == Append(ps, Null)

\* line 301 (and 304, 205, 275): client.switchToParentFrame(); in the
\* top-level document it changes nothing.
SwitchToParentFrame(c) == ParentOf(c)

\* the frame whose scan failed in the current iteration of activation r:
\* the one the lookup of line 294 found, or when it found none, the one
\* the FrameContext was discovered for
FailedFrame(r) == IF r.elem # Null THEN r.elem ELSE r.kids[r.k]

\* lines 299-302: the catch block of one iteration; the caught error is
\* dropped
CatchChild ==
  /\ pc = "rp_catch"
  /\ LET r == TopOf(stack)
         r2 == [r EXCEPT !.partials = PushNull(@),
                         !.contrib = Append(@, <<Null>>),
                         !.k = @ + 1, !.elem = Null, !.last = "failed"]
     IN  /\ \/ /\ Raises
               /\ Raise(SetTop(stack, r2), "rp_restore")
               /\ UNCHANGED ctx
            \/ /\ ctx' = SwitchToParentFrame(ctx)
               /\ stack' = SetTop(stack, r2)
               /\ pc' = LoopHead(r2)
               /\ Works
               /\ err' = NoError
         /\ failedFrames' = failedFrames \cup {FailedFrame(r)}
  /\ UNCHANGED <<rpFrame, partials, calls>>

\* the child's partials put in front of the caller's own
PushAll_Prepended(ps, childPartials) == childPartials \o ps

\* line 298: partials.push(...childPartials)
PushAll(ps, childPartials) == ps \o childPartials

\* lines 304-305: switch to the parent frame and return `partials`, to the
\* caller's line 298 or, from the outermost activation, to line 224.
ReturnPartials ==
  /\ pc = "rp_ret"
  /\ LET r == TopOf(stack)
         rest == Pop(stack)
     IN  \/ /\ Raises
            /\ Raise(stack, "rp_up")
            /\ UNCHANGED <<ctx, partials>>
         \/ /\ ctx' = SwitchToParentFrame(ctx)
            /\ IF rest = <<>>
               THEN /\ partials' = r.partials
                    /\ stack' = <<>>
                    /\ pc' = "fr_handle"
               ELSE LET c == TopOf(rest)
                        c2 == [c EXCEPT !.partials = PushAll(@, r.partials),
                                        !.contrib = Append(@, r.partials),
                                        !.k = @ + 1, !.elem = Null,
                                        !.last = "returned"]
                    IN  /\ stack' = SetTop(rest, c2)
                        /\ pc' = LoopHead(c2)
                        /\ UNCHANGED partials
            /\ Works
            /\ UNCHANGED err
  /\ UNCHANGED <<rpFrame, failedFrames, calls>>

\* ----------------------------------------------------------- finishRun
\* lines 226-234: analyzePromise catches what finishRun raises and raises
\* a new Error whose message is the original one plus the pointer to the
\* troubleshooting document.
WrapDocs(e) == [e EXCEPT !.msg = Append(@, "error-handling.md")]

FinishRaise(e) ==
  /\ err' = WrapDocs(e)
  /\ pc' = "catch"

frFrame == <<parent, cfgVars, settleVars, stack, partials, supported, path,
             startWin,
             injected, failedFrames, context, startCfg, prev, ncalls>>

\* line 310: win = await client.getWindowHandle()
GetWindowHandle ==
  /\ pc = "fr_handle"
  /\ calls' = Count("getWindowHandle")
  /\ \/ /\ Raises
        /\ FinishRaise(Error("fr_handle", 0))
        /\ UNCHANGED win
     \/ /\ Works
        /\ win' = active
        /\ pc' = "fr_create"
        /\ UNCHANGED err
  /\ UNCHANGED <<frFrame, ctx, windowVars, newWin, result>>

\* the handle is not asserted
HandleAssert_Skipped(h) == TRUE

\* lines 312-315: assert(newWindow.handle, ...)
HandleAssert(h) == h # NoHandle

\* lines 311-315: createWindow('tab') opens a window without switching to
\* it; a browser that blocks popups opens none and reports no handle.
CreateWindow ==
  /\ pc = "fr_create"
  /\ calls' = Count("createWindow")
  /\ \/ /\ Raises
        /\ FinishRaise(Error("fr_create", 0))
        /\ UNCHANGED <<open, nextHandle, newWin>>
     \/ /\ Works
        /\ \E h \in {nextHandle, NoHandle} :
             /\ newWin' = h
             /\ open' = IF h = NoHandle THEN open ELSE open \cup {h}
             /\ nextHandle' = IF h = NoHandle THEN nextHandle ELSE nextHandle + 1
             /\ IF HandleAssert(h)
                THEN pc' = "fr_switch" /\ UNCHANGED err
                ELSE FinishRaise([Error("fr_assert", 0) EXCEPT
                                    !.msg = <<"popup blockers">>])
  /\ UNCHANGED <<frFrame, ctx, active, win, result>>

\* the error of switchToWindow or url passed on as it was raised
WrapDriver_Plain(e) == e

\* lines 320-326: the error of switchToWindow or url is replaced by one
\* with the driver hint and the driver's message.
WrapDriver(e) == [e EXCEPT !.msg = <<"switchToWindow failed">> \o @]

\* switchToWindow(h) makes window h active, at its top-level document; it
\* raises when h is not an open window.
SwitchRaises(h) ==
  IF h \in open THEN CanFail /\ fails' = fails + 1 ELSE UNCHANGED fails
SwitchWorks(h) == h \in open /\ UNCHANGED fails

\* line 318: client.switchToWindow(newWindow.handle)
SwitchToNewWindow ==
  /\ pc = "fr_switch"
  /\ calls' = Count("switchToWindow")
  /\ \/ /\ SwitchRaises(newWin)
        /\ FinishRaise(WrapDriver(Error("fr_switch", 0)))
        /\ UNCHANGED <<active, ctx>>
     \/ /\ SwitchWorks(newWin)
        /\ active' = newWin
        /\ ctx' = Top
        /\ pc' = "fr_url"
        /\ UNCHANGED err
  /\ UNCHANGED <<frFrame, open, nextHandle, finishVars, result>>

\* line 319: client.url('about:blank')
NavigateBlank ==
  /\ pc = "fr_url"
  /\ calls' = Count("url")
  /\ \/ /\ Raises
        /\ FinishRaise(WrapDriver(Error("fr_url", 0)))
     \/ /\ Works
        /\ pc' = "fr_merge"
        /\ UNCHANGED err
  /\ UNCHANGED <<frFrame, ctx, windowVars, finishVars, result>>

\* line 328: res = await axeFinishRun(client, axeSource, partials, option);
\* the merged report is modelled by the sequence it was merged from.
Merged(ps) == [path |-> "partial", partials |-> ps]

FinishRunMerge ==
  /\ pc = "fr_merge"
  /\ calls' = Count("finishRun")
  /\ \/ /\ Raises
        /\ FinishRaise(Error("fr_merge", 0))
        /\ UNCHANGED result
     \/ /\ Works
        /\ result' = Merged(partials)
        /\ pc' = "fr_close"
        /\ UNCHANGED err
  /\ UNCHANGED <<frFrame, ctx, windowVars, finishVars>>

\* a closeWindow that leaves the window open
CloseActive_Skipped(ws, a) == ws

\* line 330: closeWindow() closes the active window
CloseActive(ws, a) == ws \ {a}

CloseWindow ==
  /\ pc = "fr_close"
  /\ calls' = Count("closeWindow")
  /\ \/ /\ Raises
        /\ FinishRaise(Error("fr_close", 0))
        /\ UNCHANGED open
     \/ /\ Works
        /\ open' = CloseActive(open, active)
        /\ pc' = "fr_back"
        /\ UNCHANGED err
  /\ UNCHANGED <<frFrame, ctx, active, nextHandle, finishVars, result>>

\* lines 331-333: switchToWindow(win), then finishRun returns res
SwitchBack ==
  /\ pc = "fr_back"
  /\ calls' = Count("switchToWindow")
  /\ \/ /\ SwitchRaises(win)
        /\ FinishRaise(Error("fr_back", 0))
        /\ UNCHANGED <<active, ctx>>
     \/ /\ SwitchWorks(win)
        /\ active' = win
        /\ ctx' = Top
        /\ pc' = "then"
        /\ UNCHANGED err
  /\ UNCHANGED <<frFrame, open, nextHandle, finishVars, result>>

\* ------------------------------------------- analyze()'s then / catch
hFrame == <<browserVars, cfgVars, cb, cbThrows, stack, result, partials,
            supported, path, finishVars, startWin, calls, fails, injected,
            failedFrames, context, startCfg, prev, ncalls>>

\* lines 155-158: callback?.(null, results); resolve(results).  A callback
\* that throws rejects the promise `then` returned, which the chained
\* `catch` of line 159 handles.
ThenHandler ==
  /\ pc = "then"
  /\ cbCalls' = IF cb THEN Append(cbCalls, [err |-> <<>>, res |-> result])
                ELSE cbCalls
  /\ IF cb /\ cbThrows
     THEN /\ err' = Error("callback", 0)
          /\ pc' = "catch"
          /\ UNCHANGED <<promise, promiseVal>>
     ELSE /\ promise' = "resolved"
          /\ promiseVal' = result
          /\ pc' = "done"
          /\ UNCHANGED err
  /\ UNCHANGED hFrame

\* lines 159-166: with a callback, callback(err.message, null) and nothing
\* else; without one, reject(err).
CatchHandler ==
  /\ pc = "catch"
  /\ IF cb
     THEN /\ cbCalls' = Append(cbCalls, [err |-> err.msg, res |-> NoResult])
          /\ UNCHANGED promise
     ELSE /\ promise' = "rejected"
          /\ UNCHANGED cbCalls
  /\ pc' = "done"
  /\ UNCHANGED <<hFrame, err, promiseVal>>

\* ------------------------------------------------- runLegacy / inject
\* The element kind of an embedded frame: even-numbered frames of the page
\* are <frame> elements, odd-numbered ones <iframe> elements.
IsFrameTag(f) == f % 2 = 0

RECURSIVE SelectSeq2(_, _)
SelectSeq2(s, keepFrameTag) ==
  IF s = <<>> THEN <<>>
  ELSE (IF IsFrameTag(Head(s)) = keepFrameTag THEN <<Head(s)>> ELSE <<>>)
       \o SelectSeq2(Tail(s), keepFrameTag)

\* lines 246-252: 'iframe' followed by one :not(...) per disabled selector
IframeSelector(disabled) == [frameTag |-> FALSE, nots |-> disabled]
\* lines 257-263: 'frame' followed by one :not(...) per disabled selector
FrameSelector(disabled) == [frameTag |-> TRUE, nots |-> disabled]

\* client.$$(selector) in document c
Elements(c, selector) ==
  NotMatching(SelectSeq2(ChildFrames(c), selector.frameTag), selector.nots)

\* line 192: client.$$(this.frameSelector())
FrameElements(c) == Elements(c, FrameSelector(disableFrameSelectors))
\* lines 193-194: client.$$(this.iframeSelector())
IframeElements(c) == Elements(c, IframeSelector(disableFrameSelectors))

\* An error leaves the top activation of st (it was raised outside the try
\* of lines 200-208, or rethrown by line 207): the caller's line 204 is
\* inside its try, so the caller's catch block takes it; out of the
\* outermost activation it rejects runLegacy and analyzePromise (line 222).
InjUnwind(st) ==
  IF Pop(st) = <<>> THEN [pc |-> "catch", stack |-> <<>>]
  ELSE [pc |-> "inj_catch", stack |-> Pop(st)]

InjRaise(st, step) ==
  LET u == InjUnwind(st)
  IN  /\ err' = Error(step, Len(st))
      /\ pc' = u.pc
      /\ stack' = u.stack

\* An error raised inside the try of lines 200-208
InjCaught(step) ==
  /\ err' = Error(step, Len(stack))
  /\ pc' = "inj_catch"
  /\ UNCHANGED stack

\* lines 195-199 and 209-210: the loop goes on with element r.k of the top
\* activation, or inject returns: to the caller's line 205, or to line 240.
InjAdvance(st) ==
  LET r == TopOf(st)
  IN  IF r.k <= Len(r.kids) THEN [pc |-> "inj_exist", stack |-> st]
      ELSE IF Pop(st) = <<>> THEN [pc |-> "legacy_run", stack |-> <<>>]
      ELSE [pc |-> "inj_up", stack |-> Pop(st)]

injFrame == <<windowVars, parent, cfgVars, settleVars, finishVars, result,
              partials, supported, path, startWin, failedFrames, context, startCfg, prev, ncalls>>

\* lines 269-277: setBrowsingContext(id)
SetBrowsingContext(id, c) == IF id # Null THEN id ELSE SwitchToParentFrame(c)

\* line 189.  switchToFrame(element) raises when the element is not a
\* frame element of the active document.
InjectSetContext ==
  /\ pc = "inj_ctx"
  /\ LET r == TopOf(stack)
         reachable == r.elem = Null \/ ParentOf(r.elem) = ctx
     IN  \/ /\ Raises
            /\ InjRaise(stack, "inj_ctx")
            /\ UNCHANGED ctx
         \/ /\ ~reachable
            /\ Works
            /\ InjRaise(stack, "inj_ctx")
            /\ UNCHANGED ctx
         \/ /\ reachable
            /\ Works
            /\ ctx' = SetBrowsingContext(r.elem, ctx)
            /\ stack' = SetTop(stack, [r EXCEPT !.self = ctx', !.elem = Null])
            /\ pc' = "inj_exec"
            /\ UNCHANGED err
  /\ UNCHANGED <<injFrame, calls, injected>>

\* line 190: client.execute(this.script)
InjectExecute ==
  /\ pc = "inj_exec"
  /\ calls' = Count("execute")
  /\ \/ /\ Raises
        /\ InjRaise(stack, "inj_exec")
        /\ UNCHANGED injected
     \/ /\ Works
        /\ injected' = Append(injected, ctx)
        /\ pc' = "inj_frames"
        /\ UNCHANGED <<stack, err>>
  /\ UNCHANGED <<injFrame, ctx>>

\* line 192: frames = (await client.$$(this.frameSelector())) || []
InjectQueryFrames ==
  /\ pc = "inj_frames"
  /\ \/ /\ Raises
        /\ InjRaise(stack, "inj_frames")
     \/ /\ Works
        /\ stack' = SetTop(stack, [TopOf(stack) EXCEPT !.kids = FrameElements(ctx)])
        /\ pc' = "inj_iframes"
        /\ UNCHANGED err
  /\ UNCHANGED <<injFrame, ctx, calls, injected>>

\* lines 193-199: iframes = frames.concat(await client.$$(iframeSelector()))
InjectQueryIframes ==
  /\ pc = "inj_iframes"
  /\ \/ /\ Raises
        /\ InjRaise(stack, "inj_iframes")
     \/ /\ Works
        /\ LET r == TopOf(stack)
               st == SetTop(stack, [r EXCEPT !.kids = @ \o IframeElements(ctx)])
           IN  /\ pc' = InjAdvance(st).pc
               /\ stack' = InjAdvance(st).stack
        /\ UNCHANGED err
  /\ UNCHANGED <<injFrame, ctx, calls, injected>>

\* lines 201-204: iframe.isExisting(); a missing element is skipped, an
\* existing one is entered by the recursive call.  Asked in a document
\* other than the element's own, the answer is either one.
InjectIsExisting ==
  /\ pc = "inj_exist"
  /\ LET r == TopOf(stack)
         e == r.kids[r.k]
         skip == SetTop(stack, [r EXCEPT !.k = @ + 1, !.last = "skipped"])
     IN  \/ /\ Raises
            /\ InjCaught("inj_exist")
         \/ /\ Works
            /\ ctx = r.self
            /\ stack' = Append(SetTop(stack, [r EXCEPT !.elem = e]), InjectActivation(e))
            /\ pc' = "inj_ctx"
            /\ UNCHANGED err
         \/ /\ Works
            /\ ctx # r.self
            /\ \E existing \in BOOLEAN :
                 IF existing
                 THEN /\ stack' = Append(SetTop(stack, [r EXCEPT !.elem = e]),
                                         InjectActivation(e))
                      /\ pc' = "inj_ctx"
                 ELSE /\ pc' = InjAdvance(skip).pc
                      /\ stack' = InjAdvance(skip).stack
            /\ UNCHANGED err
  /\ UNCHANGED <<injFrame, ctx, calls, injected>>

\* line 201-203: the frame element was removed from the document after
\* line 192-194 listed it
InjectFrameGone ==
  /\ pc = "inj_exist"
  /\ ctx = TopOf(stack).self
  /\ SessionOk
  /\ CanFail
  /\ fails' = fails + 1
  /\ LET r == TopOf(stack)
         skip == SetTop(stack, [r EXCEPT !.k = @ + 1, !.last = "skipped"])
     IN  /\ pc' = InjAdvance(skip).pc
         /\ stack' = InjAdvance(skip).stack
  /\ UNCHANGED <<injFrame, ctx, calls, injected, err>>

\* line 205: client.switchToParentFrame() after the recursive call returned
InjectSwitchUp ==
  /\ pc = "inj_up"
  /\ LET r == TopOf(stack)
         done == SetTop(stack, [r EXCEPT !.k = @ + 1, !.elem = Null,
                                         !.last = "returned"])
     IN  \/ /\ Raises
            /\ InjCaught("inj_up")
            /\ UNCHANGED ctx
         \/ /\ Works
            /\ ctx' = SwitchToParentFrame(ctx)
            /\ pc' = InjAdvance(done).pc
            /\ stack' = InjAdvance(done).stack
            /\ UNCHANGED err
  /\ UNCHANGED <<injFrame, calls, injected>>

\* lines 206-208: logOrRethrowError(error) logs the error and returns, or
\* throws it again; the loop goes on after a logged error.
InjectCatch ==
  /\ pc = "inj_catch"
  /\ LET r == TopOf(stack)
         logged == SetTop(stack, [r EXCEPT !.k = @ + 1, !.elem = Null,
                                           !.last = "failed"])
     IN  \E rethrow \in BOOLEAN :
           IF rethrow
           THEN /\ pc' = InjUnwind(stack).pc
                /\ stack' = InjUnwind(stack).stack
                /\ UNCHANGED err
           ELSE /\ pc' = InjAdvance(logged).pc
                /\ stack' = InjAdvance(logged).stack
                /\ err' = NoError
  /\ UNCHANGED <<injFrame, ctx, calls, injected, fails>>

\* line 240: axeRunLegacy(client, context, option); the report of the
\* single-shot run carries no partial results.
LegacyReport == [path |-> "legacy", partials |-> <<>>]

RunLegacy ==
  /\ pc = "legacy_run"
  /\ calls' = Count("runLegacy")
  /\ \/ /\ Raises
        /\ err' = Error("legacy_run", 0)
        /\ pc' = "catch"
        /\ UNCHANGED result
     \/ /\ Works
        /\ result' = LegacyReport
        /\ pc' = "then"
        /\ UNCHANGED err
  /\ UNCHANGED <<browserVars, cfgVars, settleVars, finishVars, stack, partials,
                 supported, path, startWin, injected, failedFrames, context, startCfg, prev, ncalls>>

\* --------------------------------------------------------- configuration
\* what a configuration method leaves alone besides the configuration
cfgFrame == <<browserVars, axeSource, pc, stack, err, settleVars, result, partials,
              supported, path, finishVars, startWin, calls, fails, injected,
              failedFrames, context, startCfg, prev, ncalls>>

\* lines 144-147: setLegacyMode(legacyMode = true)
SetLegacyMode ==
  /\ pc \in {"idle", "done"}
  /\ \E v \in BOOLEAN : legacyMode' = v
  /\ UNCHANGED <<includes, excludes, option, disableFrameSelectors, selCalls,
                 cfgFrame>>

\* entries the lists hold: include, exclude and disableFrame may be
\* called any number of times, the model stops at MaxEntries entries
Entries == Len(includes) + Len(excludes) + Len(disableFrameSelectors)

\* the calls kept in selCalls when call c is made
Recent(c) ==
  IF selCalls = <<>> THEN <<c>> ELSE <<selCalls[Len(selCalls)], c>>

\* An argument that is a string or an array of strings
Str(s) == [isArray |-> FALSE, str |-> s, items |-> <<>>]
Arr(a) == [isArray |-> TRUE, str |-> "", items |-> a]

\* lines 73, 83, 101, 115, 127: Array.isArray(x) ? x : [x]
ToArray(x) == IF x.isArray THEN x.items ELSE <<x.str>>

\* the arguments the calls are made with
SelectorInputs == {Str("main"), Arr(<<"#frame", "main">>)}
RuleInputs == {Str("r1"), Arr(<<"r1", "r2">>)}
TagInputs == {Str("t1"), Arr(<<"t1", "t2">>)}

\* lines 72-76: include(selector)
IncludeCall(x) ==
  /\ pc \in {"idle", "done"}
  /\ Entries < MaxEntries
  /\ includes' = Append(includes, ToArray(x))
  /\ UNCHANGED <<legacyMode, excludes, option, disableFrameSelectors, selCalls,
                 cfgFrame>>

Include == \E x \in SelectorInputs : IncludeCall(x)

\* lines 82-86: exclude(selector)
ExcludeCall(x) ==
  /\ pc \in {"idle", "done"}
  /\ Entries < MaxEntries
  /\ excludes' = Append(excludes, ToArray(x))
  /\ UNCHANGED <<legacyMode, includes, option, disableFrameSelectors, selCalls,
                 cfgFrame>>

Exclude == \E x \in SelectorInputs : ExcludeCall(x)

\* option.runOnly and option.rules when the options object has neither
\* (line 30: option = {}); an absent rules map and an empty one are not
\* told apart.
NoRunOnly == [type |-> "none", values |-> <<>>]
NoRules == [r \in {} |-> [enabled |-> FALSE]]
NoOption == [runOnly |-> NoRunOnly, rules |-> NoRules]

\* the options objects options() is called with
OptionInputs ==
  { NoOption,
    [runOnly |-> [type |-> "tag", values |-> <<"t2">>],
     rules |-> [r \in {"r2"} |-> [enabled |-> FALSE]]] }

\* lines 91-94: options(options)
OptionsCall(o) ==
  /\ pc \in {"idle", "done"}
  /\ option' = o
  /\ selCalls' = <<>>
  /\ UNCHANGED <<legacyMode, includes, excludes, disableFrameSelectors,
                 cfgFrame>>

Options == \E o \in OptionInputs : OptionsCall(o)

\* a selection that adds its values to those of the selection before it
RunOnly_Accumulated(opt, type, values) ==
  [opt EXCEPT !.runOnly = [type |-> type, values |-> @.values \o values]]

\* lines 102-105 and 116-119: this.option.runOnly = { type, values }
RunOnly(opt, type, values) ==
  [opt EXCEPT !.runOnly = [type |-> type, values |-> values]]

\* lines 100-108: withRules(rules)
WithRulesCall(x) ==
  /\ pc \in {"idle", "done"}
  /\ option' = RunOnly(option, "rule", ToArray(x))
  /\ selCalls' = Recent([method |-> "withRules", arg |-> x])
  /\ UNCHANGED <<legacyMode, includes, excludes, disableFrameSelectors,
                 cfgFrame>>

WithRules == \E x \in RuleInputs : WithRulesCall(x)

\* lines 114-121: withTags(tags)
WithTagsCall(x) ==
  /\ pc \in {"idle", "done"}
  /\ option' = RunOnly(option, "tag", ToArray(x))
  /\ selCalls' = Recent([method |-> "withTags", arg |-> x])
  /\ UNCHANGED <<legacyMode, includes, excludes, disableFrameSelectors,
                 cfgFrame>>

WithTags == \E x \in TagInputs : WithTagsCall(x)

\* a rules map that keeps the entries it had
RulesMap_Kept(old, rules) ==
  [r \in DOMAIN old \cup { rules[i] : i \in DOMAIN rules } |-> [enabled |-> FALSE]]

\* lines 128-132: this.option.rules = {}; then one { enabled: false }
\* entry is added per rule
RulesMap(old, rules) ==
  [r \in { rules[i] : i \in DOMAIN rules } |-> [enabled |-> FALSE]]

\* lines 126-135: disableRules(rules)
DisableRulesCall(x) ==
  /\ pc \in {"idle", "done"}
  /\ option' = [option EXCEPT !.rules = RulesMap(@, ToArray(x))]
  /\ UNCHANGED <<legacyMode, includes, excludes, disableFrameSelectors,
                 selCalls, cfgFrame>>

DisableRules == \E x \in RuleInputs : DisableRulesCall(x)

\* A CSS selector is the sequence of its pieces.  The selectors
\* disableFrame is called with: the id selector of frame 1, and the
\* attribute selector of the frame named 2, its value in single quotes.
FrameSelectors == { <<"#", "1">>, <<"[name=", "'", "2", "'", "]">> }

\* line 64: cssesc(selector) with the library's default options, which
\* are those of a string in single quotes: a backslash is put before
\* every backslash and every single quote.
RECURSIVE Cssesc(_)
Cssesc(sel) ==
  IF sel = <<>> THEN <<>>
  ELSE (IF Head(sel) \in {"'", "\\"} THEN <<"\\", Head(sel)>> ELSE <<Head(sel)>>)
       \o Cssesc(Tail(sel))

\* lines 63-66: disableFrame(selector)
DisableFrameCall(sel) ==
  /\ pc \in {"idle", "done"}
  /\ Entries < MaxEntries
  /\ disableFrameSelectors' = Append(disableFrameSelectors, Cssesc(sel))
  /\ UNCHANGED <<legacyMode, includes, excludes, option, selCalls, cfgFrame>>

DisableFrame == \E sel \in FrameSelectors : DisableFrameCall(sel)

\* ---------------------------------------------------------- the system
\* After construction (lines 29-57) the session shows the page in its one
\* window, at the top-level document.
\* no analyze() call was recorded
NoConfiguration ==
  [legacyMode |-> FALSE, includes |-> <<>>, excludes |-> <<>>,
   option |-> NoOption, disableFrameSelectors |-> <<>>]
NoDecision ==
  [path |-> "none", sameConfiguration |-> FALSE, sameContext |-> FALSE]

Constructed ==
  /\ ctx = Top
  /\ open = {PageWindow}
  /\ active = PageWindow
  /\ nextHandle = PageWindow + 1
  /\ axeSource \in AxeSources
  /\ legacyMode = FALSE
  /\ includes = <<>>
  /\ excludes = <<>>
  /\ option = NoOption
  /\ disableFrameSelectors = <<>>
  /\ selCalls = <<>>
  /\ pc = "idle"
  /\ stack = <<>>
  /\ err = NoError
  /\ cb = FALSE
  /\ cbThrows = FALSE
  /\ promise = "none"
  /\ promiseVal = NoResult
  /\ cbCalls = <<>>
  /\ result = NoResult
  /\ partials = <<>>
  /\ supported = "unknown"
  /\ path = "none"
  /\ win = Unset
  /\ newWin = Unset
  /\ startWin = PageWindow
  /\ calls = NoCalls
  /\ fails = 0
  /\ injected = <<>>
  /\ failedFrames = {}
  /\ context = NormalizeContext(<<>>, <<>>, <<>>)
  /\ startCfg = NoConfiguration
  /\ prev = NoDecision
  /\ ncalls = 0

Init == parent \in Pages /\ Constructed

Next ==
  \/ SetLegacyMode
  \/ Analyze
  \/ Probe
  \/ GetFrameContexts
  \/ RunPartial
  \/ FindFrame
  \/ SwitchToFrame
  \/ Reinject
  \/ CatchChild
  \/ ReturnPartials
  \/ GetWindowHandle
  \/ CreateWindow
  \/ SwitchToNewWindow
  \/ NavigateBlank
  \/ FinishRunMerge
  \/ CloseWindow
  \/ SwitchBack
  \/ InjectSetContext
  \/ InjectExecute
  \/ InjectQueryFrames
  \/ InjectQueryIframes
  \/ InjectIsExisting
  \/ InjectFrameGone
  \/ InjectSwitchUp
  \/ InjectCatch
  \/ RunLegacy
  \/ ThenHandler
  \/ CatchHandler

Spec == Init /\ [][Next]_vars

\* The builder while it is being configured: the chainable methods in any
\* order, before analyze() is called.
Configure ==
  \/ Include
  \/ Exclude
  \/ Options
  \/ WithRules
  \/ WithTags
  \/ DisableRules
  \/ DisableFrame
  \/ SetLegacyMode

\* the page plays no part in it: one without frames
InitConfig == Init /\ parent = <<>>

SpecConfig == InitConfig /\ [][Configure]_vars

\* A builder constructed with an engine build that has no runPartial:
\* every analyze() call takes the legacy path, whatever the legacy flag.
InitLegacy == Init /\ ~HasRunPartial(axeSource)

NextLegacy ==
  \/ DisableFrame
  \/ Analyze
  \/ Probe
  \/ InjectSetContext
  \/ InjectExecute
  \/ InjectQueryFrames
  \/ InjectQueryIframes
  \/ InjectIsExisting
  \/ InjectFrameGone
  \/ InjectSwitchUp
  \/ InjectCatch
  \/ RunLegacy
  \/ ThenHandler
  \/ CatchHandler

SpecLegacy == InitLegacy /\ [][NextLegacy]_vars

\* A builder constructed with an engine build that has runPartial and
\* never put in legacy mode, on pages of up to one frame more: every
\* analyze() call takes the partial path.
InitCollector ==
  /\ parent \in PagesOf(MaxFrames + 1)
  /\ Constructed
  /\ HasRunPartial(axeSource)

NextCollector ==
  \/ Analyze
  \/ Probe
  \/ GetFrameContexts
  \/ RunPartial
  \/ FindFrame
  \/ SwitchToFrame
  \/ Reinject
  \/ CatchChild
  \/ ReturnPartials
  \/ GetWindowHandle
  \/ CreateWindow
  \/ SwitchToNewWindow
  \/ NavigateBlank
  \/ FinishRunMerge
  \/ CloseWindow
  \/ SwitchBack
  \/ ThenHandler
  \/ CatchHandler

SpecCollector == InitCollector /\ [][NextCollector]_vars

\* A builder whose disabled frames and legacy flag are set between
\* analyze() calls, on a page with one iframe; each call records how it
\* compares with the call before.
InitRepeat == parent = <<Top>> /\ Constructed

NextRepeat ==
  \/ DisableFrame
  \/ SetLegacyMode
  \/ AnalyzeAgain
  \/ Probe
  \/ GetFrameContexts
  \/ RunPartial
  \/ FindFrame
  \/ SwitchToFrame
  \/ Reinject
  \/ CatchChild
  \/ ReturnPartials
  \/ GetWindowHandle
  \/ CreateWindow
  \/ SwitchToNewWindow
  \/ NavigateBlank
  \/ FinishRunMerge
  \/ CloseWindow
  \/ SwitchBack
  \/ InjectSetContext
  \/ InjectExecute
  \/ InjectQueryFrames
  \/ InjectQueryIframes
  \/ InjectIsExisting
  \/ InjectFrameGone
  \/ InjectSwitchUp
  \/ InjectCatch
  \/ RunLegacy
  \/ ThenHandler
  \/ CatchHandler

SpecRepeat == InitRepeat /\ [][NextRepeat]_vars

\* ---------------------------------------------------------- properties
Range(q) == { q[i] : i \in DOMAIN q }
Last(q) == q[Len(q)]

\* the handlers of analyze() have run to their end
Settled == pc = "done"
\* analyzePromise() rejected: an error reached analyze()'s catch handler
\* that is not the callback's own
ScanFailed == pc \in {"catch", "done"} /\ err.origin \notin {"none", "callback"}
\* analyzePromise() resolved
ScanSucceeded ==
  \/ pc = "then"
  \/ pc \in {"catch", "done"} /\ err.origin \in {"none", "callback"}

\* C1: when analyze is given a callback and the scan fails, the callback
\* receives (errorMessage, null) and the promise analyze returned resolves
\* with no value: once the handlers have run it is resolved, neither
\* rejected nor still pending.
C1_CallbackFailureResolves ==
  (Settled /\ cb /\ ScanFailed) =>
     /\ cbCalls = <<[err |-> err.msg, res |-> NoResult]>>
     /\ promise = "resolved"
     /\ promiseVal = NoResult

\* C2: without a callback the promise resolves with the results when the
\* scan succeeds and rejects when it fails; with a callback and a
\* successful scan the callback receives (null, results) and the promise
\* resolves with the same results.
C2_SettlesWithResults ==
  Settled =>
     /\ (~cb /\ ScanSucceeded) => (promise = "resolved" /\ promiseVal = result)
     /\ (~cb /\ ScanFailed) => promise = "rejected"
     /\ (cb /\ ScanSucceeded) =>
          /\ cbCalls # <<>>
          /\ cbCalls[1] = [err |-> <<>>, res |-> result]
          /\ promise = "resolved"
          /\ promiseVal = result

\* C3: when the merge call fails in the temporary window, then by the time
\* the error reaches analyze the temporary window has been closed and the
\* active window is again the one recorded when the finish step started.
C3_MergeFailureRestoresWindow ==
  (pc \in {"catch", "done"} /\ err.origin = "fr_merge") =>
     (newWin \notin open /\ active = win)

\* C4: after a successful analyze call on the partial path the active
\* window is the one that was active when the call began and the temporary
\* window of the finish step is closed.
C4_SuccessRestoresWindow ==
  (path = "partial" /\ ScanSucceeded) =>
     /\ active = startWin
     /\ active \in open
     /\ newWin # NoHandle /\ newWin # Unset
     /\ newWin \notin open

C4_Witness ==
  /\ Settled
  /\ path = "partial"
  /\ promise = "resolved"
  /\ promiseVal = Merged(partials)
  /\ calls["closeWindow"] = 1
  /\ newWin \notin open /\ newWin # Unset

\* the activations of runPartialRecursive whose `partials` exists
Collecting(i) ==
  /\ path = "partial"
  /\ i \in 1..Len(stack)
  /\ (i < Len(stack) \/ pc \notin {"rp_get", "rp_run"})

RECURSIVE SumLen(_)
SumLen(ss) == IF ss = <<>> THEN 0 ELSE Len(Head(ss)) + SumLen(Tail(ss))

\* C5: the sequence of a collector call is in pre-order: its own partial
\* result first, then the contribution of each discovered child in
\* discovery order, a contribution being the whole sequence the child's
\* call returned or one null marker; so its length is 1 plus the lengths
\* of the contributions, and a call that returns has one contribution for
\* every discovered child.
C5_PreOrderSequence ==
  \A i \in 1..Len(stack) :
    Collecting(i) =>
      LET r == stack[i]
      IN  /\ r.partials = <<r.self>> \o Flatten(r.contrib)
          /\ Len(r.partials) = 1 + SumLen(r.contrib)
          /\ Len(r.contrib) = r.k - 1
          /\ r.k <= Len(r.kids) + 1
          /\ \A j \in 1..Len(r.contrib) :
               \/ r.contrib[j] = <<Null>>
               \/ Len(r.contrib[j]) >= 1 /\ r.contrib[j][1] # Null
          /\ (i = Len(stack) /\ pc = "rp_ret") => Len(r.contrib) = Len(r.kids)

\* a call about to return a sequence made of its own result, a failed
\* child's marker and the two-element sequence of a child that succeeded
C5_Witness ==
  /\ pc = "rp_ret"
  /\ Len(stack) = 1
  /\ \E j \in 1..Len(stack[1].contrib) : stack[1].contrib[j] = <<Null>>
  /\ \E j \in 1..Len(stack[1].contrib) :
       Len(stack[1].contrib[j]) = 2 /\ Null \notin Range(stack[1].contrib[j])

\* C6: when a step for one child fails, the active browsing context is the
\* frame of the current collector call at the moment the next sibling's
\* frame element is looked up.
C6_RestoredBeforeNextSibling ==
  (pc = "rp_find" /\ TopOf(stack).last = "failed") => ctx = TopOf(stack).self

\* C7: when a recursive collector call returns to its caller the active
\* browsing context is the caller's frame, and when the top-level call
\* returns it is the top-level frame.
C7_ReturnsAtCallersFrame ==
  /\ (pc \in {"rp_find", "rp_ret"} /\ TopOf(stack).last = "returned")
        => ctx = TopOf(stack).self
  /\ pc = "fr_handle" => ctx = Top

C9_NoHandle ==
  newWin = NoHandle =>
     /\ pc \in {"catch", "done"}
     /\ ScanFailed
     /\ "popup blockers" \in Range(err.msg)
     /\ calls["switchToWindow"] = 0
     /\ calls["finishRun"] = 0
     /\ active = startWin
     /\ (Settled /\ ~cb) => promise = "rejected"

C9_Witness ==
  /\ Settled
  /\ newWin = NoHandle
  /\ calls["createWindow"] = 1
  /\ active = startWin

\* what the claim C10 counts
NoPartialCalls ==
  /\ calls["getFrameContexts"] = 0
  /\ calls["runPartial"] = 0
  /\ calls["createWindow"] = 0
  /\ calls["finishRun"] = 0

\* inject() has returned to runLegacy without raising
InjectReturned ==
  \/ pc \in {"legacy_run", "then"}
  \/ pc \in {"catch", "done"} /\ err.origin \in {"none", "callback", "legacy_run"}

\* C10 as stated: per analyze call exactly one of the two paths runs, the
\* legacy path exactly when the probe reports partial runs unsupported or
\* legacy mode is set; on the legacy path the single-shot run is invoked
\* exactly once and none of discovery, partial run, createWindow and merge
\* is; on the partial path the single-shot run is never invoked and the
\* merge at most once, after the top-level collector call returned.
\* Stated of the calls whose probe reported, when analyzePromise settles.
C10_ExactlyOnePath ==
  (pc \in {"then", "catch"} /\ supported # "unknown") =>
     /\ path \in {"legacy", "partial"}
     /\ path = "legacy" <=> (supported = "no" \/ legacyMode)
     /\ path = "legacy" => (calls["runLegacy"] = 1 /\ NoPartialCalls)
     /\ path = "partial" =>
          /\ calls["runLegacy"] = 0
          /\ calls["finishRun"] <= 1

\* C10 (amended): per analyze call at most one of the two paths runs, and
\* one does as soon as the probe has reported: the legacy path exactly
\* when it reported partial runs unsupported or legacy mode is set.  On the
\* legacy path the single-shot run is invoked at most once, exactly once
\* when inject returned without raising and never otherwise, and none of
\* discovery, partial run, createWindow and merge is invoked; on the
\* partial path neither inject's execute nor the single-shot run is
\* invoked, and the merge at most once, after the top-level collector call
\* returned.
C10_AtMostOnePath ==
  /\ pc \notin {"idle", "done"} =>
       /\ path = "legacy" <=> (supported # "unknown" /\ (supported = "no" \/ legacyMode))
       /\ path = "partial" <=> (supported = "yes" /\ ~legacyMode)
  /\ path = "none" <=> supported = "unknown"
  /\ path = "legacy" =>
       /\ NoPartialCalls
       /\ calls["runLegacy"] <= 1
       /\ (pc \in {"then", "catch", "done"}) =>
            (calls["runLegacy"] = 1 <=> InjectReturned)
       /\ pc \notin {"then", "catch", "done"} => calls["runLegacy"] = 0
  /\ path = "partial" =>
       /\ calls["runLegacy"] = 0
       /\ calls["execute"] = 0
       /\ calls["finishRun"] <= 1
       /\ calls["finishRun"] = 1 => (stack = <<>> /\ Len(partials) >= 1)
  /\ path = "none" => (calls["runLegacy"] = 0 /\ NoPartialCalls)

\* the legacy path, taken because legacy mode is set although the engine
\* supports partial runs, has run the single-shot run once
C10_Witness ==
  /\ Settled
  /\ path = "legacy"
  /\ supported = "yes"
  /\ calls["runLegacy"] = 1
  /\ promise = "resolved"

\* C12: the merge call is issued only while the active window is the
\* temporary window createWindow opened, after switching into it and
\* navigating it to the blank page both succeeded; when the switch or the
\* navigation fails the merge is never issued and the error analyze sees
\* carries the driver hint.
C12_MergeInTempWindow ==
  /\ pc = "fr_merge" =>
       /\ active = newWin
       /\ newWin \in open
       /\ newWin # win
       /\ calls["url"] = 1
       /\ err = NoError
  /\ calls["finishRun"] >= 1 =>
       /\ calls["url"] = 1
       /\ calls["switchToWindow"] >= 1
       /\ err.origin \notin {"fr_switch", "fr_url"}
       /\ pc = "fr_close" => active = newWin
  /\ err.origin \in {"fr_switch", "fr_url"} =>
       /\ pc \in {"catch", "done"}
       /\ calls["finishRun"] = 0
       /\ Head(err.msg) = "switchToWindow failed"

\* navigating the temporary window failed and analyze has settled
C12_Witness ==
  /\ Settled
  /\ err.origin = "fr_url"
  /\ active = newWin
  /\ calls["finishRun"] = 0

\* C13: on the legacy path, after the injection into one child failed and
\* the failure was logged, the next sibling is attempted with the browsing
\* context at the parent frame, the one the loop's activation runs in.
C13_SiblingsAtParentFrame ==
  (pc = "inj_exist" /\ TopOf(stack).last = "failed") =>
     ctx = TopOf(stack).self

\* C16: setBrowsingContext(null), the first step of the outermost inject,
\* makes the top-level page the active browsing context, from whatever
\* frame the context was in.
C16_NullSetsTopLevel ==
  (pc = "inj_exec" /\ Len(stack) = 1) => ctx = Top

\* C18: when analyze is given a callback, the callback is invoked exactly
\* once per analyze call, with (null, results) or with (errorMessage,
\* null), also when it throws on being handed the results.
C18_CallbackOnce ==
  (Settled /\ cb) =>
     /\ Len(cbCalls) = 1
     /\ (cbCalls[1].err = <<>>) # (cbCalls[1].res = NoResult)

\* C19: when the finish step obtained the handle of a new window and
\* switching into it or navigating it fails, then once analyze has settled
\* the temporary window is closed and the active window is the one that
\* was active when analyze was called.
C19_TempWindowCleanedUp ==
  (Settled /\ err.origin \in {"fr_switch", "fr_url"}) =>
     /\ newWin \notin open
     /\ active = startWin

\* the array a string-or-array argument stands for
ArgItems(x) == IF x.isArray THEN x.items ELSE <<x.str>>

\* C11: after any sequence of withRules and withTags calls the run-only
\* selection holds exactly the mode and the values of the most recent of
\* them: one mode, never a rule list and a tag list together.
C11_LastSelectionWins ==
  selCalls # <<>> =>
     /\ option.runOnly.type =
          (IF Last(selCalls).method = "withRules" THEN "rule" ELSE "tag")
     /\ option.runOnly.values = ArgItems(Last(selCalls).arg)

\* withTags was called after withRules
C11_Witness ==
  /\ Len(selCalls) = 2
  /\ selCalls[1].method = "withRules"
  /\ selCalls[2].method = "withTags"
  /\ selCalls[2].arg.isArray
  /\ option.runOnly = [type |-> "tag", values |-> <<"t1", "t2">>]

\* C20: disableRules(R) makes the disabled-rule map exactly R, dropping
\* the rules disabled before, and leaves the run-only selection as it was;
\* withRules and withTags leave the disabled-rule map as it was;
\* options(o) replaces the whole options value; include and exclude only
\* append one entry to their list and touch nothing else.
C20_ConfigFrameEffects ==
  [][ /\ \A x \in RuleInputs :
           DisableRulesCall(x) =>
             /\ DOMAIN option'.rules = Range(ArgItems(x))
             /\ \A r \in DOMAIN option'.rules : ~option'.rules[r].enabled
             /\ option'.runOnly = option.runOnly
      /\ (WithRules \/ WithTags) => option'.rules = option.rules
      /\ \A o \in OptionInputs : OptionsCall(o) => option' = o
      /\ \A x \in SelectorInputs :
           IncludeCall(x) =>
             /\ includes' = includes \o <<ArgItems(x)>>
             /\ excludes' = excludes
      /\ \A x \in SelectorInputs :
           ExcludeCall(x) =>
             /\ excludes' = excludes \o <<ArgItems(x)>>
             /\ includes' = includes
    ]_vars

\* options() set a tag selection and disabled r2; disableRules("r1") then
\* left r1 as the only disabled rule and the tag selection in place
C20_Witness ==
  /\ DOMAIN option.rules = {"r1"}
  /\ option.runOnly = [type |-> "tag", values |-> <<"t2">>]
  /\ Len(includes) = 2
  /\ includes[1] # includes[2]

\* a disabled-frame selector of the builder matches frame f
DisabledFrame(f) ==
  \E i \in DOMAIN disableFrameSelectors : Matches(disableFrameSelectors[i], f)

\* the frames inject(c) is to reach: c, and the frames below it that are
\* embedded through frames no disabled-frame selector matches
RECURSIVE Reachable(_)
Reachable(c) ==
  {c} \cup UNION { Reachable(f) :
                     f \in { g \in DOMAIN parent :
                               /\ active = PageWindow
                               /\ parent[g] = c
                               /\ ~DisabledFrame(g) } }

\* frame f, or a frame it is embedded through, matches a disabled-frame
\* selector
RECURSIVE InDisabledFrame(_)
InDisabledFrame(f) ==
  /\ f # Top
  /\ f \in DOMAIN parent
  /\ (DisabledFrame(f) \/ InDisabledFrame(parent[f]))

\* C14: on the legacy path, when inject returns and no frame operation of
\* the call failed, the script has been executed exactly once in the frame
\* inject started in and in every frame reachable from it through frames
\* no disabled-frame selector matches, and never in a frame that a
\* disabled-frame selector matches nor in a descendant of such a frame.
C14_InjectedEverywhereOnce ==
  (pc = "legacy_run" /\ fails = 0) =>
     /\ injected # <<>>
     /\ Range(injected) = Reachable(injected[1])
     /\ Cardinality(Range(injected)) = Len(injected)
     /\ \A i \in DOMAIN injected : ~InDisabledFrame(injected[i])

\* C15: the collector's traversal is sequential and never retries.  In
\* every collector call each discovered child has been attempted once when
\* the loop moves past it, with its whole outcome (partial results or the
\* failure marker) recorded before the next sibling's frame element is
\* looked up; and a frame whose scan failed is not attempted again within
\* the same analyze call.
C15_NoRetries ==
  /\ path = "partial" =>
       \A i \in DOMAIN stack :
          /\ stack[i].k \in 1..(Len(stack[i].kids) + 1)
          /\ Len(stack[i].contrib) = stack[i].k - 1
          /\ i < Len(stack) => stack[i].k <= Len(stack[i].kids)
  /\ pc = "rp_find" =>
       /\ TopOf(stack).elem = Null
       /\ TopOf(stack).last \in {"none", "failed", "returned"}
  /\ pc = "rp_switch" => TopOf(stack).elem \notin failedFrames

\* C17: an analyze call, whether it succeeds or fails and on either path,
\* leaves the builder's configuration (include list, exclude list,
\* disabled-frame selectors, options, legacy flag) unchanged; and a second
\* analyze call, made with the configuration the call before it had, takes
\* the same path and builds the same scan context.
C17_ConfigSurvivesAnalyze ==
  /\ [][ (pc \notin {"idle", "done"} \/ pc' \notin {"idle", "done"}) =>
            Configuration' = Configuration ]_vars
  /\ []( (prev.path # "none" /\ prev.sameConfiguration) =>
            /\ prev.sameContext
            /\ path # "none" => path = prev.path )

\* a second call on a configured builder decided as the first one did
C17_Witness ==
  /\ Settled
  /\ ncalls = 2
  /\ prev.path = "partial"
  /\ path = "partial"
  /\ prev.sameConfiguration
  /\ prev.sameContext
  /\ Len(disableFrameSelectors) = 1
  /\ ScanFailed

====
